---- MODULE Spec2Model ----
(***************************************************************************)
(* Model of the event subscription client of misty-py-wrapper:             *)
(* ApiWrapperMixin.add_websocket (the registry of named streams) and       *)
(* WebSocketStream.subscribe / unsubscribe / get_message                   *)
(* (src/misty-py-wrapper/api_wrappers.py, duplicated in src/misty.py).     *)
(*                                                                         *)
(* A WebSocketStream has no state field: its only mutable attribute is     *)
(* self.websocket (None, or the connection object returned by              *)
(* websockets.connect).  The three states of the written design are        *)
(* therefore read off the attribute and the connection it refers to        *)
(* (operator State).                                                       *)
(*                                                                         *)
(* The code raises plain Exception objects; the outcome of a call is       *)
(* classified by what is raised:                                           *)
(*   "NotSubscribed"        Exception('No active WebSocket subscription')  *)
(*   "SubscriptionRejected" Exception('WebSocket stream exception: '+resp) *)
(*   "TransportError"       an exception raised by the websockets library  *)
(*                          (connect failure, ConnectionClosed)            *)
(*   "ok"                   normal return                                  *)
(*   "blocked"              the call is suspended in `await recv()`        *)
(*                                                                         *)
(* Texts on the wire are sequences of tokens (key, value, key, value ...). *)
(***************************************************************************)
EXTENDS Integers, Sequences, FiniteSets, TLC

\* ---------------------------------------------------------------- bounds
MaxConns == 2     \* connections opened by websockets.connect
MaxCalls == 3     \* subscribe / unsubscribe / get_message calls
MaxInbox == 1     \* events pending in one connection's receive buffer
MaxConds == 2     \* filter triples in one conditions argument
MaxBacklog == 2   \* events pending in the receive buffer, when their order is checked

\* ---------------------------------------------------------------- values
\* Python None, and a value that is not None
None == [isNone |-> TRUE]

Some(v) == [isNone |-> FALSE, val |-> v]

\* the add_websocket calls of the callers: add_imu(imu, debounce=100) of the
\* mapping script and the registration made by Head.pitch's position_getter
Registrations ==
  { [event_type |-> "IMU", event_name |-> "imu", debounce |-> 100,
     return_property |-> None, conditions |-> None],
    [event_type |-> "ActuatorPosition", event_name |-> "pitch", debounce |-> 250,
     return_property |-> None,
     conditions |-> Some(<< <<"sensorName", "==", "Actuator_HeadPitch">> >>)] }

\* event names used as registry keys
Names == {r.event_name : r \in Registrations}

\* what the server may answer to a subscribe request
AckResponse == <<"eventName", "registered", "message", "Registration Status: API event registered.">>

RejectResponse == <<"status", "Failed", "error", "Invalid event type">>

ServerResponses == {AckResponse, RejectResponse}

\* event texts the server may push on a registered connection
EventTexts == { <<"eventName", "evt", "message", "HasPose">> }

VARIABLES
  websockets,   \* ApiWrapperMixin.websockets: event name -> WebSocketStream
  conns,        \* the connections opened so far, in order of opening
  call,         \* the last call made by the caller, with what it did (steps:
                \* its operations on the connection, in order)
  ncalls,       \* number of such calls made
  waiting,      \* event name whose get_message is suspended in recv ("": none)
  hist,         \* per stream: has a subscribe / an unsubscribe returned normally,
                \* and the conditions argument its constructor was given
  posted,       \* the requests wrapper_post has sent to the robot, in order
  pose,         \* the position of the robot's head, as its actuators report it
  pc            \* where the running position_getter / Head setter stands

vars == <<websockets, conns, call, ncalls, waiting, hist, posted, pose, pc>>

\* what the calls on streams leave alone
rest == <<posted, pose, pc>>

\* the keys of the registry
Registered == DOMAIN websockets

ConnIds == 1..Len(conns)

\* ------------------------------------------------------- pure functions

\* `tok in text` on a text of tokens
Contains(text, tok) == \E i \in DOMAIN text : text[i] = tok

\* the comparison operators the docstring of add_websocket lists
DocumentedInequalities == {"=>", "==", "!=", ">", "<", "exists", "empty", "delta"}

\* generate_event_conditions as it would be with the triple unpacked as
\* (property, value, inequality)
generate_event_conditions_swapped(conditions) ==
  IF conditions.isNone \/ Len(conditions.val) = 0
  THEN None
  ELSE Some([i \in 1..Len(conditions.val) |->
              [Property   |-> conditions.val[i][1],
               Inequality |-> conditions.val[i][3],
               Value      |-> conditions.val[i][2]]])

\* generate_event_conditions as it would be if it replaced an operator
\* outside the documented set
generate_event_conditions_checked(conditions) ==
  IF conditions.isNone \/ Len(conditions.val) = 0
  THEN None
  ELSE Some([i \in 1..Len(conditions.val) |->
              [Property   |-> conditions.val[i][1],
               Inequality |-> IF conditions.val[i][2] \in DocumentedInequalities
                              THEN conditions.val[i][2] ELSE "==",
               Value      |-> conditions.val[i][3]]])

\* WebSocketStream.generate_event_conditions
generate_event_conditions(conditions) ==
  IF conditions.isNone \/ Len(conditions.val) = 0
  THEN None
  ELSE Some([i \in 1..Len(conditions.val) |->
              [Property   |-> conditions.val[i][1],
               Inequality |-> conditions.val[i][2],
               Value      |-> conditions.val[i][3]]])

\* json.dumps of a dict given as its (key, value) items in insertion order:
\* the text lists key, value, key, value ...; None is written as null
json_dumps(items) ==
  [i \in 1..(2 * Len(items)) |->
     IF i % 2 = 1 THEN items[(i + 1) \div 2][1]
     ELSE LET v == items[i \div 2][2] IN IF v.isNone THEN "null" ELSE v.val]

\* json.loads of the text of an object: the dict of its keys (a later
\* duplicate of a key wins)
json_loads(text) ==
  LET n    == Len(text) \div 2
      keys == {text[2 * i - 1] : i \in 1..n}
      last(k) == CHOOSE i \in 1..n :
                   /\ text[2 * i - 1] = k
                   /\ \A j \in 1..n : text[2 * j - 1] = k => j <= i
  IN [k \in keys |-> text[2 * last(k)]]

\* sub_msg as it would be with the event type and the event name exchanged
sub_msg_exchanged(s) ==
  json_dumps(<< <<"Operation", Some("subscribe")>>,
                <<"Type", Some(s.event_name)>>,
                <<"DebounceMs", Some(s.debounce)>>,
                <<"EventName", Some(s.event_type)>>,
                <<"ReturnProperty", s.return_property>>,
                <<"EventConditions", s.conditions>> >>)

\* the subscribe request built by subscribe()
sub_msg(s) ==
  json_dumps(<< <<"Operation", Some("subscribe")>>,
                <<"Type", Some(s.event_type)>>,
                <<"DebounceMs", Some(s.debounce)>>,
                <<"EventName", Some(s.event_name)>>,
                <<"ReturnProperty", s.return_property>>,
                <<"EventConditions", s.conditions>> >>)

\* the unsubscribe request built by unsubscribe()
unsub_msg(s) ==
  json_dumps(<< <<"Operation", Some("unsubscribe")>>,
                <<"EventName", Some(s.event_name)>> >>)

\* ------------------------------------------------------- derived state

\* state of the written design, read off self.websocket (0 is None)
State(n) ==
  LET ws == websockets[n].websocket IN
  IF ws = 0 THEN "UNSUBSCRIBED"
  ELSE IF conns[ws].status = "closed" THEN "CLOSED"
  ELSE IF conns[ws].acked THEN "SUBSCRIBED"
  ELSE "UNACKED"

\* connections opened by the stream registered under n that are still open
OpenConnsOf(n) == {c \in ConnIds : conns[c].owner = n /\ conns[c].status = "open"}

\* no position_getter and no Head setter is running
Idle == [at |-> "idle", event_name |-> "", sensor_name |-> "", msg |-> <<>>,
         result |-> None, setter |-> "", new |-> 0, reads |-> <<>>, got |-> <<>>]

\* nothing was posted, the head is centred, nothing runs
NoRest ==
  /\ posted = <<>>
  /\ pose = [pitch |-> 0, roll |-> 0, yaw |-> 0]
  /\ pc = Idle

NoCall == [op |-> "none", stream |-> "", outcome |-> "none", pre |-> "none",
           hadSub |-> FALSE, hadUnsub |-> FALSE,
           opens |-> 0, sends |-> 0, recvs |-> 0, closes |-> 0,
           steps |-> <<>>, conn |-> 0, value |-> <<>>, arg |-> <<>>]

\* ----------------------------------------------------------------- Init
Init ==
  /\ websockets = [n \in {} |-> 0]
  /\ conns = <<>>
  /\ call = NoCall
  /\ ncalls = 0
  /\ waiting = ""
  /\ hist = [n \in {} |-> 0]
  /\ NoRest

\* -------------------------------------------------------------- actions

\* WebSocketStream.__init__
NewStream(uri, event_type, event_name, debounce, return_property, conditions) ==
  [uri |-> uri, websocket |-> 0, event_type |-> event_type,
   event_name |-> event_name, debounce |-> debounce,
   return_property |-> return_property,
   conditions |-> generate_event_conditions(conditions)]

\* add_websocket as it would be if it closed the connection of the stream it
\* replaces
add_websocket_closing(event_type, event_name, debounce, return_property, conditions) ==
  LET ws == NewStream("ws://ip/pubsub", event_type, event_name,
                      debounce, return_property, conditions) IN
  /\ waiting = ""
  /\ websockets' = [n \in Registered \cup {event_name} |->
                      IF n = event_name THEN ws ELSE websockets[n]]
  /\ hist' = [n \in Registered \cup {event_name} |->
                IF n = event_name
                THEN [sub |-> FALSE, unsub |-> FALSE, given |-> conditions]
                ELSE hist[n]]
  /\ conns' = [c \in ConnIds |->
                 IF conns[c].owner = event_name
                 THEN [conns[c] EXCEPT !.owner = "", !.status = "closed"]
                 ELSE conns[c]]
  /\ call' = [NoCall EXCEPT !.op = "add_websocket", !.stream = event_name]
  /\ UNCHANGED <<ncalls, waiting>>

\* ApiWrapperMixin.add_websocket: the stream that was registered under
\* event_name, if any, is no longer referenced; its connections stay as
\* they are (owner "" marks a connection of an unreferenced stream)
add_websocket(event_type, event_name, debounce, return_property, conditions) ==
  LET ws == NewStream("ws://ip/pubsub", event_type, event_name,
                      debounce, return_property, conditions) IN
  /\ waiting = ""
  /\ websockets' = [n \in Registered \cup {event_name} |->
                      IF n = event_name THEN ws ELSE websockets[n]]
  /\ hist' = [n \in Registered \cup {event_name} |->
                IF n = event_name
                THEN [sub |-> FALSE, unsub |-> FALSE, given |-> conditions]
                ELSE hist[n]]
  /\ conns' = [c \in ConnIds |->
                 IF conns[c].owner = event_name
                 THEN [conns[c] EXCEPT !.owner = ""] ELSE conns[c]]
  /\ call' = [NoCall EXCEPT !.op = "add_websocket", !.stream = event_name]
  /\ UNCHANGED <<ncalls, waiting>>

CallStart(op, n) ==
  [NoCall EXCEPT !.op = op, !.stream = n, !.pre = State(n),
                 !.hadSub = hist[n].sub, !.hadUnsub = hist[n].unsub]

\* a connection just opened; pushed records the events the server has sent on
\* it and nrecv counts the events get_message has taken from it
NewConn(n) == [owner |-> n, status |-> "open", acked |-> FALSE,
               sent |-> <<>>, inbox |-> <<>>, pushed |-> <<>>, nrecv |-> 0]

\* WebSocketStream.subscribe, websockets.connect raises
subscribe_connect_fails(n) ==
  /\ call' = [CallStart("subscribe", n) EXCEPT !.outcome = "TransportError",
                                               !.steps = <<"open">>]
  /\ UNCHANGED <<websockets, conns, hist>>

\* WebSocketStream.subscribe, the connection is lost before the send
\* (sentBefore = FALSE) or before the response (sentBefore = TRUE)
subscribe_dropped(n, sentBefore) ==
  LET c == Len(conns) + 1 IN
  /\ conns' = Append(conns,
       [NewConn(n) EXCEPT !.status = "lost",
                          !.sent = IF sentBefore THEN <<sub_msg(websockets[n])>> ELSE <<>>])
  /\ websockets' = [websockets EXCEPT ![n].websocket = c]
  /\ call' = [CallStart("subscribe", n) EXCEPT
                !.outcome = "TransportError", !.opens = 1, !.conn = c,
                !.sends = 1, !.recvs = IF sentBefore THEN 1 ELSE 0,
                !.steps = IF sentBefore THEN <<"open", "send", "recv">>
                          ELSE <<"open", "send">>]
  /\ UNCHANGED hist

\* subscribe_answered as it would be if the connection were an attribute of
\* the class, shared by every stream
subscribe_answered_shared(n, resp) ==
  LET c  == Len(conns) + 1
      ok == Contains(resp, "message") IN
  /\ conns' = Append(conns,
       [NewConn(n) EXCEPT !.sent = <<sub_msg(websockets[n])>>, !.acked = ok])
  /\ websockets' = [m \in Registered |-> [websockets[m] EXCEPT !.websocket = c]]
  /\ call' = [CallStart("subscribe", n) EXCEPT
                !.outcome = IF ok THEN "ok" ELSE "SubscriptionRejected",
                !.value = IF ok THEN <<>>
                          ELSE <<"WebSocket stream exception: ">> \o resp,
                !.opens = 1, !.sends = 1, !.recvs = 1, !.conn = c,
                !.steps = <<"open", "send", "recv">>]
  /\ hist' = [hist EXCEPT ![n].sub = @ \/ ok]

\* subscribe_answered as it would be if subscribe closed the connection the
\* stream holds before it attaches the new one
subscribe_answered_closing(n, resp) ==
  LET c   == Len(conns) + 1
      old == websockets[n].websocket
      ok  == Contains(resp, "message") IN
  /\ conns' = Append([i \in ConnIds |->
                        IF i = old THEN [conns[i] EXCEPT !.status = "closed"]
                        ELSE conns[i]],
       [NewConn(n) EXCEPT !.sent = <<sub_msg(websockets[n])>>, !.acked = ok])
  /\ websockets' = [websockets EXCEPT ![n].websocket = c]
  /\ call' = [CallStart("subscribe", n) EXCEPT
                !.outcome = IF ok THEN "ok" ELSE "SubscriptionRejected",
                !.value = IF ok THEN <<>>
                          ELSE <<"WebSocket stream exception: ">> \o resp,
                !.opens = 1, !.sends = 1, !.recvs = 1, !.conn = c,
                !.steps = <<"open", "send", "recv">>]
  /\ hist' = [hist EXCEPT ![n].sub = @ \/ ok]

\* WebSocketStream.subscribe, the server answers resp
subscribe_answered(n, resp) ==
  LET c  == Len(conns) + 1
      ok == Contains(resp, "message") IN
  /\ conns' = Append(conns,
       [NewConn(n) EXCEPT !.sent = <<sub_msg(websockets[n])>>, !.acked = ok])
  /\ websockets' = [websockets EXCEPT ![n].websocket = c]
  /\ call' = [CallStart("subscribe", n) EXCEPT
                !.outcome = IF ok THEN "ok" ELSE "SubscriptionRejected",
                !.value = IF ok THEN <<>>
                          ELSE <<"WebSocket stream exception: ">> \o resp,
                !.opens = 1, !.sends = 1, !.recvs = 1, !.conn = c,
                !.steps = <<"open", "send", "recv">>]
  /\ hist' = [hist EXCEPT ![n].sub = @ \/ ok]

\* WebSocketStream.subscribe
subscribe(n) ==
  /\ waiting = ""
  /\ ncalls < MaxCalls
  /\ Len(conns) < MaxConns
  /\ ncalls' = ncalls + 1
  /\ \/ subscribe_connect_fails(n)
     \/ \E sentBefore \in BOOLEAN : subscribe_dropped(n, sentBefore)
     \/ \E resp \in ServerResponses : subscribe_answered(n, resp)
  /\ UNCHANGED waiting

\* unsubscribe as it would be without the final `await self.websocket.close()`
unsubscribe_without_close(n) ==
  LET ws == websockets[n].websocket IN
  /\ waiting = ""
  /\ ncalls < MaxCalls
  /\ ncalls' = ncalls + 1
  /\ IF ws = 0
     THEN /\ call' = [CallStart("unsubscribe", n) EXCEPT !.outcome = "NotSubscribed"]
          /\ UNCHANGED <<conns, hist>>
     ELSE IF conns[ws].status # "open"
     THEN /\ call' = [CallStart("unsubscribe", n) EXCEPT
                        !.outcome = "TransportError", !.sends = 1, !.conn = ws,
                        !.steps = <<"send">>]
          /\ UNCHANGED <<conns, hist>>
     ELSE /\ conns' = [conns EXCEPT ![ws].sent = Append(@, unsub_msg(websockets[n]))]
          /\ call' = [CallStart("unsubscribe", n) EXCEPT
                        !.outcome = "ok", !.sends = 1, !.conn = ws,
                        !.steps = <<"send">>]
          /\ hist' = [hist EXCEPT ![n].unsub = TRUE]
  /\ UNCHANGED <<websockets, waiting>>

\* unsubscribe as it would be if it awaited the server's answer before closing
unsubscribe_awaits_response(n) ==
  LET ws == websockets[n].websocket IN
  /\ waiting = ""
  /\ ncalls < MaxCalls
  /\ ncalls' = ncalls + 1
  /\ IF ws = 0
     THEN /\ call' = [CallStart("unsubscribe", n) EXCEPT !.outcome = "NotSubscribed"]
          /\ UNCHANGED <<conns, hist>>
     ELSE IF conns[ws].status # "open"
     THEN /\ call' = [CallStart("unsubscribe", n) EXCEPT
                        !.outcome = "TransportError", !.sends = 1, !.conn = ws,
                        !.steps = <<"send">>]
          /\ UNCHANGED <<conns, hist>>
     ELSE /\ conns' = [conns EXCEPT ![ws].sent = Append(@, unsub_msg(websockets[n])),
                                    ![ws].status = "closed"]
          /\ call' = [CallStart("unsubscribe", n) EXCEPT
                        !.outcome = "ok", !.sends = 1, !.recvs = 1, !.closes = 1,
                        !.conn = ws, !.steps = <<"send", "recv", "close">>]
          /\ hist' = [hist EXCEPT ![n].unsub = TRUE]
  /\ UNCHANGED <<websockets, waiting>>

\* unsubscribe as it would be if it cleared self.websocket after the close
unsubscribe_resetting(n) ==
  LET ws == websockets[n].websocket IN
  /\ waiting = ""
  /\ ncalls < MaxCalls
  /\ ncalls' = ncalls + 1
  /\ IF ws = 0
     THEN /\ call' = [CallStart("unsubscribe", n) EXCEPT !.outcome = "NotSubscribed"]
          /\ UNCHANGED <<conns, hist, websockets>>
     ELSE IF conns[ws].status # "open"
     THEN /\ call' = [CallStart("unsubscribe", n) EXCEPT
                        !.outcome = "TransportError", !.sends = 1, !.conn = ws,
                        !.steps = <<"send">>]
          /\ UNCHANGED <<conns, hist, websockets>>
     ELSE /\ conns' = [conns EXCEPT ![ws].sent = Append(@, unsub_msg(websockets[n])),
                                    ![ws].status = "closed"]
          /\ call' = [CallStart("unsubscribe", n) EXCEPT
                        !.outcome = "ok", !.sends = 1, !.closes = 1, !.conn = ws,
                        !.steps = <<"send", "close">>]
          /\ hist' = [hist EXCEPT ![n].unsub = TRUE]
          /\ websockets' = [websockets EXCEPT ![n].websocket = 0]
  /\ UNCHANGED waiting

\* unsubscribe as it would be if it closed every open connection of the robot
unsubscribe_closing_all(n) ==
  LET ws == websockets[n].websocket IN
  /\ waiting = ""
  /\ ncalls < MaxCalls
  /\ ncalls' = ncalls + 1
  /\ IF ws = 0
     THEN /\ call' = [CallStart("unsubscribe", n) EXCEPT !.outcome = "NotSubscribed"]
          /\ UNCHANGED <<conns, hist>>
     ELSE IF conns[ws].status # "open"
     THEN /\ call' = [CallStart("unsubscribe", n) EXCEPT
                        !.outcome = "TransportError", !.sends = 1, !.conn = ws,
                        !.steps = <<"send">>]
          /\ UNCHANGED <<conns, hist>>
     ELSE /\ conns' = [c \in ConnIds |->
                        IF c = ws
                        THEN [conns[c] EXCEPT !.sent = Append(@, unsub_msg(websockets[n])),
                                              !.status = "closed"]
                        ELSE IF conns[c].status = "open"
                        THEN [conns[c] EXCEPT !.status = "closed"]
                        ELSE conns[c]]
          /\ call' = [CallStart("unsubscribe", n) EXCEPT
                        !.outcome = "ok", !.sends = 1, !.closes = 1, !.conn = ws,
                        !.steps = <<"send", "close">>]
          /\ hist' = [hist EXCEPT ![n].unsub = TRUE]
  /\ UNCHANGED <<websockets, waiting>>

\* WebSocketStream.unsubscribe
unsubscribe(n) ==
  LET ws == websockets[n].websocket IN
  /\ waiting = ""
  /\ ncalls < MaxCalls
  /\ ncalls' = ncalls + 1
  /\ IF ws = 0
     THEN /\ call' = [CallStart("unsubscribe", n) EXCEPT !.outcome = "NotSubscribed"]
          /\ UNCHANGED <<conns, hist>>
     ELSE IF conns[ws].status # "open"
     THEN \* send raises ConnectionClosed; close() is not reached
          /\ call' = [CallStart("unsubscribe", n) EXCEPT
                        !.outcome = "TransportError", !.sends = 1, !.conn = ws,
                        !.steps = <<"send">>]
          /\ UNCHANGED <<conns, hist>>
     ELSE /\ conns' = [conns EXCEPT ![ws].sent = Append(@, unsub_msg(websockets[n])),
                                    ![ws].status = "closed"]
          /\ call' = [CallStart("unsubscribe", n) EXCEPT
                        !.outcome = "ok", !.sends = 1, !.closes = 1, !.conn = ws,
                        !.steps = <<"send", "close">>]
          /\ hist' = [hist EXCEPT ![n].unsub = TRUE]
  /\ UNCHANGED <<websockets, waiting>>

\* recv_returns as it would be if recv() handed out the newest pending message
recv_returns_newest(n, op) ==
  LET ws == websockets[n].websocket
      k  == Len(conns[ws].inbox) IN
  /\ conns' = [conns EXCEPT ![ws].inbox = SubSeq(@, 1, k - 1), ![ws].nrecv = @ + 1]
  /\ call' = [op EXCEPT !.outcome = "ok", !.recvs = 1, !.conn = ws,
                        !.steps = <<"recv">>,
                        !.value = json_loads(conns[ws].inbox[k])]

\* recv_returns as it would be if get_message closed the connection after
\* each message
recv_returns_closing(n, op) ==
  LET ws == websockets[n].websocket IN
  /\ conns' = [conns EXCEPT ![ws].inbox = Tail(@), ![ws].nrecv = @ + 1,
                            ![ws].status = "closed"]
  /\ call' = [op EXCEPT !.outcome = "ok", !.recvs = 1, !.conn = ws,
                        !.steps = <<"recv">>,
                        !.value = json_loads(Head(conns[ws].inbox))]

\* recv() returns the first pending message, which get_message decodes
recv_returns(n, op) ==
  LET ws == websockets[n].websocket IN
  /\ conns' = [conns EXCEPT ![ws].inbox = Tail(@), ![ws].nrecv = @ + 1]
  /\ call' = [op EXCEPT !.outcome = "ok", !.recvs = 1, !.conn = ws,
                        !.steps = <<"recv">>,
                        !.value = json_loads(Head(conns[ws].inbox))]

\* recv_raises as it would be if get_message caught ConnectionClosed and
\* returned nothing
recv_raises_swallowed(n, op) ==
  /\ call' = [op EXCEPT !.outcome = "ok", !.recvs = 1,
                        !.steps = <<"recv">>,
                        !.conn = websockets[n].websocket]
  /\ UNCHANGED conns

\* recv() raises ConnectionClosed
recv_raises(n, op) ==
  /\ call' = [op EXCEPT !.outcome = "TransportError", !.recvs = 1,
                        !.steps = <<"recv">>,
                        !.conn = websockets[n].websocket]
  /\ UNCHANGED conns

\* WebSocketStream.get_message
get_message(n) ==
  LET ws == websockets[n].websocket
      op == CallStart("receive", n) IN
  /\ waiting = ""
  /\ ncalls < MaxCalls
  /\ ncalls' = ncalls + 1
  /\ IF ws = 0
     THEN /\ call' = [op EXCEPT !.outcome = "NotSubscribed"]
          /\ UNCHANGED <<conns, waiting>>
     ELSE IF conns[ws].status = "open"
     THEN IF conns[ws].inbox # <<>>
          THEN recv_returns(n, op) /\ UNCHANGED waiting
          ELSE /\ call' = [op EXCEPT !.outcome = "blocked", !.recvs = 1, !.conn = ws,
                                     !.steps = <<"recv">>]
               /\ waiting' = n
               /\ UNCHANGED conns
     ELSE \* closed or lost connection: the library raises ConnectionClosed,
          \* or (depending on its version) first hands out what it buffered
          /\ \/ recv_raises(n, op)
             \/ conns[ws].inbox # <<>> /\ recv_returns(n, op)
          /\ UNCHANGED waiting
  /\ UNCHANGED <<websockets, hist>>

\* recv_wakes as it would be if recv() gave up after some time
recv_wakes_timing_out ==
  /\ waiting # ""
  /\ LET ws == websockets[waiting].websocket IN
       \/ conns[ws].inbox # <<>> /\ recv_returns(waiting, call)
       \/ conns[ws].inbox = <<>> /\ recv_raises(waiting, call)
  /\ waiting' = ""
  /\ UNCHANGED <<websockets, ncalls, hist>>

\* the suspended recv() of get_message completes
recv_wakes ==
  /\ waiting # ""
  /\ LET ws == websockets[waiting].websocket IN
       \/ conns[ws].inbox # <<>> /\ recv_returns(waiting, call)
       \/ conns[ws].status # "open" /\ conns[ws].inbox = <<>> /\ recv_raises(waiting, call)
  /\ waiting' = ""
  /\ UNCHANGED <<websockets, ncalls, hist>>

\* the server pushes an event on a connection it registered, while fewer
\* than limit events are pending on it
server_pushes(c, text, limit) ==
  /\ conns[c].status = "open"
  /\ conns[c].acked
  /\ Len(conns[c].inbox) < limit
  /\ conns' = [conns EXCEPT ![c].inbox = Append(@, text),
                            ![c].pushed = Append(@, text)]
  /\ UNCHANGED <<websockets, call, ncalls, waiting, hist>>

server_sends(c, text) == server_pushes(c, text, MaxInbox)

\* the server or the network ends a connection
server_drops(c) ==
  /\ conns[c].status = "open"
  /\ conns' = [conns EXCEPT ![c].status = "lost"]
  /\ UNCHANGED <<websockets, call, ncalls, waiting, hist>>

Next ==
  \/ (\E r \in Registrations :
        add_websocket(r.event_type, r.event_name, r.debounce,
                      r.return_property, r.conditions)) /\ UNCHANGED rest
  \/ (\E n \in Registered : subscribe(n)) /\ UNCHANGED rest
  \/ (\E n \in Registered : unsubscribe(n)) /\ UNCHANGED rest
  \/ (\E n \in Registered : get_message(n)) /\ UNCHANGED rest
  \/ recv_wakes /\ UNCHANGED rest
  \/ (\E c \in ConnIds, text \in EventTexts : server_sends(c, text)) /\ UNCHANGED rest
  \/ (\E c \in ConnIds : server_drops(c)) /\ UNCHANGED rest

Spec == Init /\ [][Next]_vars

\* ------------------------------------------- the subscribe request
\* One stream constructed with any conditions argument, then subscribed.

CondInequalities == {"==", "!=", "~~"}

CondTriples ==
  {<<p, i, v>> : p \in {"sensorPosition"}, i \in CondInequalities,
                 v \in {"Chin", "Scruff"}}

\* the conditions arguments: None, the empty list, lists of triples
CondInputs ==
  {None} \cup {Some(l) : l \in UNION {[1..k -> CondTriples] : k \in 0..MaxConds}}

InitReq ==
  /\ \E c \in CondInputs :
       /\ websockets = [n \in {"touch"} |->
                          NewStream("ws://ip/pubsub", "TouchSensor", "touch", 250, None, c)]
       /\ hist = [n \in {"touch"} |-> [sub |-> FALSE, unsub |-> FALSE, given |-> c]]
  /\ conns = <<>>
  /\ call = NoCall
  /\ ncalls = 0
  /\ waiting = ""
  /\ NoRest

NextReq == (\E n \in Registered : subscribe(n)) /\ UNCHANGED rest

SpecReq == InitReq /\ [][NextReq]_vars

\* ------------------------------------------------ the order of events
\* The imu stream of the mapping script, with a server that pushes two
\* different events in any order.

ImuRegistration == CHOOSE r \in Registrations : r.event_name = "imu"

RecvEvents == { <<"eventName", "imu", "message", "yaw 10">>,
                <<"eventName", "imu", "message", "yaw 20">> }

InitRecv ==
  /\ websockets = [n \in {"imu"} |->
        NewStream("ws://ip/pubsub", ImuRegistration.event_type, "imu",
                  ImuRegistration.debounce, ImuRegistration.return_property,
                  ImuRegistration.conditions)]
  /\ hist = [n \in {"imu"} |->
        [sub |-> FALSE, unsub |-> FALSE, given |-> ImuRegistration.conditions]]
  /\ conns = <<>>
  /\ call = NoCall
  /\ ncalls = 0
  /\ waiting = ""
  /\ NoRest

NextRecv ==
  \/ (\E n \in Registered : subscribe(n)) /\ UNCHANGED rest
  \/ (\E n \in Registered : get_message(n)) /\ UNCHANGED rest
  \/ (\E n \in Registered : unsubscribe(n)) /\ UNCHANGED rest
  \/ recv_wakes /\ UNCHANGED rest
  \/ (\E c \in ConnIds, text \in RecvEvents : server_pushes(c, text, MaxBacklog))
       /\ UNCHANGED rest
  \/ (\E c \in ConnIds : server_drops(c)) /\ UNCHANGED rest

SpecRecv == InitRecv /\ [][NextRecv]_vars

\* ---------------------------------------------------------------- claims

\* a step that is a subscribe / unsubscribe / get_message call on stream n
CallOn(n) == ncalls' = ncalls + 1 /\ call'.stream = n

\* C1: a subscribe() on an UNSUBSCRIBED stream that is rejected (the response
\* lacks the marker) raises with the raw response and leaves the stream
\* UNSUBSCRIBED, holding no connection.
C1_RejectedSubscribeLeavesUnsubscribed ==
  (call.op = "subscribe" /\ call.outcome = "SubscriptionRejected"
     /\ call.pre = "UNSUBSCRIBED")
  => /\ Len(call.value) > 1
     /\ SubSeq(call.value, 2, Len(call.value)) \in ServerResponses
     /\ State(call.stream) = "UNSUBSCRIBED"
     /\ websockets[call.stream].websocket = 0

\* C2: get_message() on a stream on which no subscribe() has succeeded yet
\* raises NotSubscribed and does not wait on (or read from) a connection.
C2_ReceiveBeforeSubscribeFails ==
  (call.op = "receive" /\ ~call.hadSub)
  => (call.outcome = "NotSubscribed" /\ call.recvs = 0)

\* C3: unsubscribe() on a stream on which no subscribe() has succeeded yet
\* raises NotSubscribed and sends nothing.
C3_UnsubscribeBeforeSubscribeFails ==
  (call.op = "unsubscribe" /\ ~call.hadSub)
  => (call.outcome = "NotSubscribed" /\ call.sends = 0 /\ call.closes = 0)

\* C4: after a successful subscribe() and a successful unsubscribe(), another
\* unsubscribe() raises NotSubscribed, without a send or a close and without a
\* transport-level error.
C4_SecondUnsubscribeFailsCleanly ==
  (call.op = "unsubscribe" /\ call.hadSub /\ call.hadUnsub /\ call.pre = "CLOSED")
  => (call.outcome = "NotSubscribed" /\ call.sends = 0 /\ call.closes = 0)

\* C5: get_message() on a CLOSED stream raises NotSubscribed instead of
\* reading from the closed connection; it returns a message only when the
\* stream is SUBSCRIBED.
C5_ReceiveOnClosedFails ==
  /\ (call.op = "receive" /\ call.hadSub /\ call.hadUnsub /\ call.pre = "CLOSED")
       => (call.outcome = "NotSubscribed" /\ call.recvs = 0)
  /\ (call.op = "receive" /\ call.outcome = "ok") => call.pre = "SUBSCRIBED"

C7_AtMostOneOpenConnection ==
  \A n \in Registered : Cardinality(OpenConnsOf(n)) <= 1

\* C8: once a stream is CLOSED through unsubscribe(), no subscribe(),
\* get_message() or unsubscribe() on it changes its state or opens a connection.
C8_ClosedIsTerminal ==
  [][\A n \in Registered :
       (hist[n].sub /\ hist[n].unsub /\ State(n) = "CLOSED" /\ CallOn(n))
       => (State(n)' = "CLOSED" /\ call'.opens = 0 /\ Len(conns') = Len(conns))]_vars

\* C9: a subscribe() on an UNSUBSCRIBED stream that fails at the connection
\* level raises a transport error and leaves the stream UNSUBSCRIBED, holding
\* no connection.
C9_TransportFailureLeavesUnsubscribed ==
  (call.op = "subscribe" /\ call.outcome = "TransportError"
     /\ call.pre = "UNSUBSCRIBED")
  => (State(call.stream) = "UNSUBSCRIBED" /\ websockets[call.stream].websocket = 0)

\* C10: a new stream is UNSUBSCRIBED without a connection, and a call changes
\* the state of its stream only from UNSUBSCRIBED to SUBSCRIBED (a subscribe()
\* answered with the marker, one connection open) or from SUBSCRIBED to CLOSED
\* (an unsubscribe(), that connection closed).
C10_ThreeStateLifecycle ==
  [][/\ \A n \in Names :
          (call'.op = "add_websocket" /\ call'.stream = n /\ websockets'[n] # websockets)
          => (State(n)' = "UNSUBSCRIBED" /\ websockets'[n].websocket = 0)
     /\ \A n \in Registered : CallOn(n) =>
          \/ State(n)' = State(n)
          \/ /\ State(n) = "UNSUBSCRIBED" /\ State(n)' = "SUBSCRIBED"
             /\ call'.op = "subscribe" /\ call'.outcome = "ok"
             /\ Cardinality(OpenConnsOf(n)') = 1
          \/ /\ State(n) = "SUBSCRIBED" /\ State(n)' = "CLOSED"
             /\ call'.op = "unsubscribe"
             /\ conns'[websockets[n].websocket].status = "closed"
    ]_vars

\* the subscribe request a connection carries, and what its stream was given
RequestOf(c) == conns[c].sent[1]

GivenOf(c) == hist[conns[c].owner].given

HasRequest(c) == conns[c].sent # <<>> /\ conns[c].owner \in Registered

\* C11: the EventConditions field of every subscribe request is the list of
\* {Property, Inequality, Value} records of the constructor's triples, in
\* their order, and null when the argument was None or empty.
C11_EventConditionsMirrorFilters ==
  \A c \in ConnIds : HasRequest(c) =>
    /\ Len(RequestOf(c)) = 12
    /\ RequestOf(c)[11] = "EventConditions"
    /\ IF GivenOf(c).isNone THEN RequestOf(c)[12] = "null"
       ELSE IF Len(GivenOf(c).val) = 0 THEN RequestOf(c)[12] = "null"
       ELSE RequestOf(c)[12] =
              [i \in 1..Len(GivenOf(c).val) |->
                 [Property   |-> GivenOf(c).val[i][1],
                  Inequality |-> GivenOf(c).val[i][2],
                  Value      |-> GivenOf(c).val[i][3]]]

\* C11 witness: a request was sent for a stream given two different triples
C11_Witness ==
  \E c \in ConnIds :
    /\ HasRequest(c)
    /\ ~GivenOf(c).isNone
    /\ Len(GivenOf(c).val) = 2
    /\ GivenOf(c).val[1] # GivenOf(c).val[2]
    /\ GivenOf(c).val[1][2] # GivenOf(c).val[1][3]
    /\ Len(RequestOf(c)[12]) = 2

\* C12: on a SUBSCRIBED stream the k-th get_message() that returns gives the
\* decoded k-th event the server pushed on the connection after the
\* acknowledgment, and what is pending is exactly what was pushed after those
\* k events: in order, none skipped, none twice, one consumed per call.
C12_EventsInServerOrder ==
  /\ \A c \in ConnIds :
       /\ conns[c].nrecv <= Len(conns[c].pushed)
       /\ conns[c].inbox =
            SubSeq(conns[c].pushed, conns[c].nrecv + 1, Len(conns[c].pushed))
  /\ (call.op = "receive" /\ call.outcome = "ok" /\ call.pre = "SUBSCRIBED")
       => LET k    == conns[call.conn].nrecv
              text == conns[call.conn].pushed[k] IN
          /\ k >= 1
          /\ call.value = [key \in {text[1], text[3]} |->
                             IF key = text[1] THEN text[2] ELSE text[4]]

\* C12 witness: the second get_message() on a connection has returned, after
\* the server pushed two different events
C12_Witness ==
  /\ call.op = "receive" /\ call.outcome = "ok" /\ call.pre = "SUBSCRIBED"
  /\ conns[call.conn].nrecv = 2
  /\ conns[call.conn].pushed[1] # conns[call.conn].pushed[2]

\* the add_websocket call that constructed the stream registered under n
RegistrationOf(n) == CHOOSE r \in Registrations : r.event_name = n

\* C13: a subscribe() that gets an answer has opened one connection, sent one
\* request on it and received one message, in this order; the request carries
\* the values given at construction; no event was taken from the connection,
\* so all the server pushed since is still pending.
C13_SubscribeOneOpenSendRecv ==
  (call.op = "subscribe" /\ call.outcome \in {"ok", "SubscriptionRejected"})
  => LET r == RegistrationOf(call.stream)
         c == call.conn IN
     /\ call.steps = <<"open", "send", "recv">>
     /\ call.opens = 1 /\ call.sends = 1 /\ call.recvs = 1 /\ call.closes = 0
     /\ c = websockets[call.stream].websocket
     /\ conns[c].sent =
          << <<"Operation", "subscribe", "Type", r.event_type,
               "DebounceMs", r.debounce, "EventName", r.event_name,
               "ReturnProperty",
               IF r.return_property.isNone THEN "null" ELSE r.return_property.val,
               "EventConditions",
               IF r.conditions.isNone THEN "null"
               ELSE [i \in 1..Len(r.conditions.val) |->
                       [Property   |-> r.conditions.val[i][1],
                        Inequality |-> r.conditions.val[i][2],
                        Value      |-> r.conditions.val[i][3]]]>> >>
     /\ conns[c].nrecv = 0
     /\ conns[c].inbox = conns[c].pushed

\* C13 witness: after an acknowledged subscribe() of the stream with a filter
\* condition, the first event is pending
C13_Witness ==
  /\ call.op = "subscribe" /\ call.outcome = "ok"
  /\ ~RegistrationOf(call.stream).conditions.isNone
  /\ Len(conns[call.conn].inbox) = 1

\* C14: an unsubscribe() called on a SUBSCRIBED stream attempts one send and
\* nothing before it, and reads nothing; when the send goes out, the request is
\* the only one after the subscribe request, it carries the operation tag and
\* the stream's event name, the close follows the send directly and the events
\* still pending on the connection were not read; when the send fails no
\* close is attempted.
C14_UnsubscribeSendsThenCloses ==
  (call.op = "unsubscribe" /\ call.pre = "SUBSCRIBED")
  => LET c == call.conn IN
     /\ call.sends = 1 /\ call.recvs = 0 /\ call.opens = 0
     /\ call.outcome \in {"ok", "TransportError"}
     /\ call.outcome = "ok" =>
          /\ call.steps = <<"send", "close">>
          /\ call.closes = 1
          /\ Len(conns[c].sent) = 2
          /\ conns[c].sent[2] = <<"Operation", "unsubscribe", "EventName", call.stream>>
          /\ conns[c].status = "closed"
          /\ conns[c].inbox = SubSeq(conns[c].pushed, conns[c].nrecv + 1,
                                     Len(conns[c].pushed))
     /\ call.outcome = "TransportError" =>
          /\ call.steps = <<"send">>
          /\ call.closes = 0
          /\ Len(conns[c].sent) = 1

\* C14 witness: an unsubscribe() on a SUBSCRIBED stream has sent its request
\* and closed the connection while an event was pending on it
C14_Witness ==
  /\ call.op = "unsubscribe" /\ call.pre = "SUBSCRIBED" /\ call.outcome = "ok"
  /\ conns[call.conn].status = "closed"
  /\ Len(conns[call.conn].sent) = 2
  /\ conns[call.conn].inbox # <<>>

\* a get_message() on the stream registered under n returns a message in this
\* step, directly or when its suspended recv() completes
ReceiveReturns(n) ==
  /\ call'.op = "receive" /\ call'.stream = n /\ call'.outcome = "ok"
  /\ \/ ncalls' = ncalls + 1
     \/ waiting = n /\ waiting' = ""

\* C15: a get_message() that returns a message on a SUBSCRIBED stream leaves
\* the stream as it was: the state is still SUBSCRIBED, the same connection is
\* attached and its status is unchanged (open stays open), the configuration
\* is unchanged, nothing was sent and no connection was opened.
C15_ReceiveChangesNothing ==
  [][\A n \in Registered :
       (ReceiveReturns(n) /\ State(n) = "SUBSCRIBED")
       => LET ws == websockets[n].websocket IN
          /\ websockets' = websockets
          /\ State(n)' = "SUBSCRIBED"
          /\ call'.conn = ws
          /\ conns'[ws].status = conns[ws].status
          /\ conns'[ws].sent = conns[ws].sent
          /\ Len(conns') = Len(conns)
          /\ hist' = hist]_vars

\* C15 witness: a get_message() has returned an event on a SUBSCRIBED stream
\* with a filter condition, whose connection is open
C15_Witness ==
  /\ call.op = "receive" /\ call.outcome = "ok" /\ call.pre = "SUBSCRIBED"
  /\ call.stream \in Registered
  /\ ~websockets[call.stream].conditions.isNone
  /\ State(call.stream) = "SUBSCRIBED"
  /\ call.conn = websockets[call.stream].websocket
  /\ conns[call.conn].status = "open"
  /\ conns[call.conn].nrecv = 1

\* C16: add_websocket can always be called, whatever is registered (the caller
\* permitting: it is not suspended in get_message); called under a name the
\* registry holds, it does not fail, the registry keeps its names, the name
\* maps to the newly constructed stream, which has no connection, the other
\* entries are untouched, and every connection, that of the replaced stream
\* included, keeps its status and has nothing sent on it.
C16_ReRegistrationReplacesAndLeaks ==
  /\ [](waiting = "" =>
          \A r \in Registrations :
            ENABLED add_websocket(r.event_type, r.event_name, r.debounce,
                                  r.return_property, r.conditions))
  /\ [][\A n \in Registered :
          (/\ call'.op = "add_websocket" /\ call'.stream = n
           /\ <<websockets, call>>' # <<websockets, call>>)
          => LET r == RegistrationOf(n) IN
             /\ call'.outcome = "none"
             /\ DOMAIN websockets' = DOMAIN websockets
             /\ websockets'[n] = NewStream("ws://ip/pubsub", r.event_type, n,
                                           r.debounce, r.return_property, r.conditions)
             /\ websockets'[n].websocket = 0
             /\ \A m \in Registered \ {n} : websockets'[m] = websockets[m]
             /\ Len(conns') = Len(conns)
             /\ \A c \in ConnIds :
                  /\ conns'[c].status = conns[c].status
                  /\ conns'[c].sent = conns[c].sent
                  /\ conns'[c].inbox = conns[c].inbox]_vars

\* C16 witness: add_websocket has replaced a stream that was subscribed; the
\* connection it held is open, unreferenced, and only the subscribe request
\* was sent on it
C16_Witness ==
  /\ call.op = "add_websocket"
  /\ websockets[call.stream].websocket = 0
  /\ Len(conns) = 1
  /\ conns[1].owner = "" /\ conns[1].status = "open" /\ conns[1].acked
  /\ Len(conns[1].sent) = 1

\* C17: no connection is attached to two streams: the streams of the registry
\* hold different connections, each holds a connection that it opened itself,
\* the connection of a replaced stream is held by no registered stream, and
\* the connection a subscribe() opened is a new one, attached to the stream
\* subscribed and to no other.
C17_ConnectionNeverShared ==
  /\ \A n \in Registered, m \in Registered :
       (n # m /\ websockets[n].websocket # 0)
       => websockets[n].websocket # websockets[m].websocket
  /\ \A n \in Registered :
       websockets[n].websocket # 0 => conns[websockets[n].websocket].owner = n
  /\ (call.op = "subscribe" /\ call.opens = 1)
       => /\ call.conn = Len(conns)
          /\ {n \in Registered : websockets[n].websocket = call.conn} = {call.stream}

\* C17 witness: two registered streams are subscribed, each on an open
\* connection
C17_Witness ==
  /\ Registered = {"imu", "pitch"}
  /\ State("imu") = "SUBSCRIBED" /\ State("pitch") = "SUBSCRIBED"
  /\ conns[websockets["imu"].websocket].status = "open"
  /\ conns[websockets["pitch"].websocket].status = "open"
  /\ call.op = "subscribe" /\ call.outcome = "ok"

\* C18: an operation makes one attempt and reports its failure itself.  No
\* call opens, sends, receives or closes twice; subscribe() returns normally
\* only when the answer it read acknowledges the request, and fails with the
\* answer in its message otherwise; unsubscribe() returns normally only when
\* its request went out and the connection was closed; get_message() returns
\* normally only with an event the server did push, so a connection that ends
\* while it waits makes it fail with the transport's error.  No step opens
\* more than one connection or sends more than one request, and only
\* subscribe() opens one.
C18_SingleAttemptFailuresSurface ==
  /\ [](/\ \A i \in 1..Len(call.steps), j \in 1..Len(call.steps) :
             i # j => call.steps[i] # call.steps[j]
        /\ call.opens <= 1 /\ call.sends <= 1 /\ call.recvs <= 1 /\ call.closes <= 1
        /\ call.op = "subscribe" =>
             /\ call.outcome \in {"ok", "SubscriptionRejected", "TransportError"}
             /\ call.outcome = "ok"
                  <=> (call.conn # 0 /\ conns[call.conn].acked)
             /\ call.outcome = "SubscriptionRejected"
                  <=> (call.recvs = 1 /\ call.value =
                         <<"WebSocket stream exception: ">> \o RejectResponse)
             /\ call.outcome = "TransportError"
                  => (call.opens = 0 \/ ~conns[call.conn].acked)
        /\ (call.op = "unsubscribe" /\ call.outcome = "ok") =>
             /\ call.steps = <<"send", "close">>
             /\ conns[call.conn].status = "closed"
        /\ (call.op = "receive" /\ call.outcome = "ok") =>
             /\ conns[call.conn].nrecv >= 1
             /\ call.value = json_loads(conns[call.conn].pushed[conns[call.conn].nrecv]))
  /\ [][/\ Len(conns') = Len(conns) +
             (IF call'.op = "subscribe" /\ ncalls' = ncalls + 1 THEN call'.opens ELSE 0)
        /\ \A c \in ConnIds : Len(conns'[c].sent) <= Len(conns[c].sent) + 1
        /\ Cardinality({c \in ConnIds : conns'[c].sent # conns[c].sent}) <= 1
        /\ \A n \in Registered :
             (waiting = n /\ waiting' = "" /\ conns[websockets[n].websocket].inbox = <<>>)
             => call'.outcome = "TransportError"]_vars

\* C18 witness: a get_message() on a SUBSCRIBED stream has failed with the
\* transport's error on a connection that was lost before any event came
C18_Witness ==
  /\ call.op = "receive" /\ call.pre = "SUBSCRIBED"
  /\ call.outcome = "TransportError"
  /\ call.steps = <<"recv">>
  /\ conns[call.conn].status = "lost" /\ conns[call.conn].acked
  /\ conns[call.conn].pushed = <<>>

\* C19: whatever the operator of a filter triple, documented or not, the
\* constructed stream and the subscribe request carry it unchanged in the
\* Inequality field of the triple's record; subscribe() can be called on the
\* stream and ends in nothing but the server's answer or a transport failure.
C19_InequalityForwardedUnchecked ==
  /\ \A n \in Registered :
       LET given == hist[n].given IN
       /\ (~given.isNone /\ Len(given.val) > 0) =>
            /\ ~websockets[n].conditions.isNone
            /\ \A i \in 1..Len(given.val) :
                 websockets[n].conditions.val[i].Inequality = given.val[i][2]
       /\ (ncalls < MaxCalls /\ Len(conns) < MaxConns) => ENABLED subscribe(n)
  /\ \A c \in ConnIds :
       (HasRequest(c) /\ ~GivenOf(c).isNone) =>
         \A i \in 1..Len(GivenOf(c).val) :
           RequestOf(c)[12][i].Inequality = GivenOf(c).val[i][2]
  /\ call.op = "subscribe" =>
       call.outcome \in {"ok", "SubscriptionRejected", "TransportError"}

\* C19 witness: a subscribe() whose request carries an operator outside the
\* documented set has returned normally
C19_Witness ==
  /\ call.op = "subscribe" /\ call.outcome = "ok"
  /\ ~GivenOf(call.conn).isNone
  /\ \E i \in 1..Len(GivenOf(call.conn).val) :
       /\ GivenOf(call.conn).val[i][2] \notin DocumentedInequalities
       /\ RequestOf(call.conn)[12][i].Inequality \notin DocumentedInequalities

\* ------------------------------------------- Robot.add_hazard_notification

MaxHazards == 2

\* the hazard types the docstring of add_hazard_notification lists
DocumentedHazards ==
  {"bumpSensorsHazardState", "criticalInternalError", "driveStopped",
   "timeOfFlightSensorsHazardState", "excessiveSpeedHazard"}

\* the list `hazards` of add_hazard_notification: no comma separates
\* 'driveStopped' from 'timeOfFlightSensorsHazardState', so Python joins the
\* two literals into one entry
hazards ==
  <<"bumpSensorsHazardState", "criticalInternalError",
    "driveStopped" \o "timeOfFlightSensorsHazardState", "excessiveSpeedHazard">>

\* Python's `x in list`
InList(x, list) == \E i \in 1..Len(list) : list[i] = x

\* Python's list.remove(x) for an x the list holds: drops the first x
ListRemove(list, x) ==
  LET k == CHOOSE i \in 1..Len(list) :
             list[i] = x /\ \A j \in 1..(i - 1) : list[j] # x IN
  SubSeq(list, 1, k - 1) \o SubSeq(list, k + 1, Len(list))

\* the hazard_type arguments: None, a string, or a list of strings
HazardNames == DocumentedHazards \cup {"wheelSlip"}

HazardInputs ==
  {[kind |-> "none", str |-> "", list |-> <<>>]}
  \cup {[kind |-> "str", str |-> h, list |-> <<>>] : h \in HazardNames}
  \cup {[kind |-> "list", str |-> "", list |-> l] :
          l \in UNION {[1..k -> HazardNames] : k \in 0..MaxHazards}}

\* the loop over the entries of a list argument, from entry i on: it raises
\* ValueError itself for an entry that `hazards` does not hold, and
\* list.remove raises ValueError for an entry that was removed before
RECURSIVE ExcludeLoop(_, _, _)
ExcludeLoop(hazard_type, i, exclude_hazards) ==
  IF i > Len(hazard_type)
  THEN [raised |-> FALSE, exclude_hazards |-> exclude_hazards]
  ELSE IF ~InList(hazard_type[i], hazards)
  THEN [raised |-> TRUE, exclude_hazards |-> <<>>]
  ELSE IF ~InList(hazard_type[i], exclude_hazards)
  THEN [raised |-> TRUE, exclude_hazards |-> <<>>]
  ELSE ExcludeLoop(hazard_type, i + 1, ListRemove(exclude_hazards, hazard_type[i]))

\* the conditions add_hazard_notification computes, or the ValueError
hazard_conditions(hazard_type) ==
  IF \/ hazard_type.kind = "none"
     \/ hazard_type.kind = "str" /\ hazard_type.str = ""
     \/ hazard_type.kind = "list" /\ hazard_type.list = <<>>
  THEN [raised |-> FALSE, conditions |-> None]
  ELSE IF hazard_type.kind = "str"
  THEN IF InList(hazard_type.str, hazards)
       THEN [raised |-> FALSE,
             conditions |-> Some(<< <<"Hazard", "==", hazard_type.str>> >>)]
       ELSE [raised |-> TRUE, conditions |-> None]
  ELSE LET r == ExcludeLoop(hazard_type.list, 1, hazards) IN
       IF r.raised THEN [raised |-> TRUE, conditions |-> None]
       ELSE [raised |-> FALSE,
             conditions |-> Some([i \in 1..Len(r.exclude_hazards) |->
                                    <<"Hazard", "!=", r.exclude_hazards[i]>>])]

\* Robot.add_hazard_notification
add_hazard_notification(event_name, hazard_type) ==
  LET r == hazard_conditions(hazard_type) IN
  IF r.raised
  THEN /\ waiting = ""
       /\ call' = [NoCall EXCEPT
                     !.op = "add_hazard_notification", !.stream = event_name,
                     !.outcome = "ValueError",
                     !.arg = <<hazard_type.kind, hazard_type.str, hazard_type.list>>]
       /\ UNCHANGED <<websockets, conns, ncalls, waiting, hist>>
  ELSE add_websocket("HazardNotification", event_name, 250, None, r.conditions)

InitHazard == Init

NextHazard ==
  (\E h \in HazardInputs : add_hazard_notification("hazard", h)) /\ UNCHANGED rest

SpecHazard == InitHazard /\ [][NextHazard]_vars

\* a hazard_type made of documented hazard types only: one of them as a
\* string, or a list of different ones
DocumentedInput(h) ==
  \/ h.kind = "str" /\ h.str \in DocumentedHazards
  \/ /\ h.kind = "list" /\ h.list # <<>>
     /\ \A i \in 1..Len(h.list) : h.list[i] \in DocumentedHazards
     /\ \A i \in 1..Len(h.list), j \in 1..Len(h.list) : i # j => h.list[i] # h.list[j]

\* C20: add_hazard_notification called with documented hazard types, one as
\* a string or several in a list, does not raise and leaves a
\* HazardNotification stream registered under event_name.
C20_DocumentedHazardsAccepted ==
  [][\A h \in HazardInputs :
       (DocumentedInput(h) /\ add_hazard_notification("hazard", h))
       => /\ call'.outcome # "ValueError"
          /\ "hazard" \in DOMAIN websockets'
          /\ websockets'["hazard"].event_type = "HazardNotification"]_vars

\* ------------------------------------------------------------- Head.move
\* Angles are integers counting thousandths of the unit in use.

MaxPosts == 1

\* ApiWrapperMixin.wrapper_post: the request goes out, and the robot's answer
\* with status 'Failed' is raised as an Exception
wrapper_post(op, endpoint, params) ==
  /\ Len(posted) < MaxPosts
  /\ posted' = Append(posted, [endpoint |-> endpoint, params |-> params])
  /\ \E status \in {"Success", "Failed"} :
       call' = [op EXCEPT !.outcome = IF status = "Failed" THEN "Exception" ELSE "ok"]

\* a call that raises before it posts anything
raises(op, error) ==
  /\ call' = [op EXCEPT !.outcome = error]
  /\ UNCHANGED posted

\* the record of a call of Head.move
MoveStart(pitch, roll, yaw, velocity, duration, units) ==
  [NoCall EXCEPT !.op = "move",
                 !.arg = <<pitch, roll, yaw, velocity, duration, units>>]

\* Python's bool() of an optional number
Truthy(x) == ~x.isNone /\ x.val # 0

pitch_lower_bound == -40
pitch_upper_bound == 26
roll_lower_bound == -40
roll_upper_bound == 40
yaw_lower_bound == -81
yaw_upper_bound == 81

\* lower <= x <= upper for bounds in whole units
Between(lower, x, upper) == lower * 1000 <= x /\ x <= upper * 1000

\* radians(lower) <= x <= radians(upper), for bounds in degrees: d degrees are
\* d * pi / 180 radians, with pi taken as 3.1416
BetweenRadians(lower, x, upper) ==
  lower * 31416 <= x * 1800 /\ x * 1800 <= upper * 31416

\* the range tests of Head.move for each of the units
InRange(pitch, roll, yaw, units) ==
  IF units = "degrees"
  THEN /\ Between(pitch_lower_bound, pitch, pitch_upper_bound)
       /\ Between(roll_lower_bound, roll, roll_upper_bound)
       /\ Between(yaw_lower_bound, yaw, yaw_upper_bound)
  ELSE IF units = "radians"
  THEN /\ BetweenRadians(pitch_lower_bound, pitch, pitch_upper_bound)
       /\ BetweenRadians(roll_lower_bound, roll, roll_upper_bound)
       /\ BetweenRadians(yaw_lower_bound, yaw, yaw_upper_bound)
  ELSE Between(-5, pitch, 5) /\ Between(-5, roll, 5) /\ Between(-5, yaw, 5)

\* the default of the velocity parameter of Head.move
velocity_default == Some(10)

\* the default of the duration parameter of Head.move
duration_default == None

\* Head.move, with the values its parameters have after the defaults
move(pitch, roll, yaw, velocity, duration, units) ==
  LET op == MoveStart(pitch, roll, yaw, velocity, duration, units) IN
  IF Truthy(velocity) = Truthy(duration)
  THEN raises(op, "ValueError")
  ELSE IF units \notin {"degrees", "radians", "position"}
  THEN raises(op, "ValueError")
  ELSE IF ~InRange(pitch, roll, yaw, units)
  THEN raises(op, "ValueError")
  ELSE wrapper_post(op, "head",
         [Pitch |-> pitch, Roll |-> roll, Yaw |-> yaw,
          Velocity |-> velocity, Duration |-> duration, Units |-> units])

\* what a caller of Head.move may write for velocity and for duration:
\* nothing, None, zero, or a number
PassedNumbers(k) ==
  {[supplied |-> FALSE, val |-> None], [supplied |-> TRUE, val |-> None],
   [supplied |-> TRUE, val |-> Some(0)], [supplied |-> TRUE, val |-> Some(k)]}

MoveCalls ==
  [pitch : {0, 27000}, roll : {0}, yaw : {0},
   velocity : PassedNumbers(50), duration : PassedNumbers(2),
   units : {"degrees", "radians", "position", "furlongs"}]

\* the call Head.move(...) written with the arguments a
move_call(a) ==
  move(a.pitch, a.roll, a.yaw,
       IF a.velocity.supplied THEN a.velocity.val ELSE velocity_default,
       IF a.duration.supplied THEN a.duration.val ELSE duration_default,
       a.units)

\* the calls on the robot leave the streams alone
streams == <<websockets, conns, ncalls, waiting, hist>>

InitMove == Init

NextMove == (\E a \in MoveCalls : move_call(a)) /\ UNCHANGED <<streams, pose, pc>>

SpecMove == InitMove /\ [][NextMove]_vars

\* a call that passes a number for the parameter, or leaves it out
Plain(x) == ~x.supplied \/ Truthy(x.val)

\* C21: a call of Head.move with a valid position that passes a number for
\* exactly one of velocity and duration, leaving the other out, is accepted
\* and posts the head command; a call that passes numbers for both, or leaves
\* both out, raises ValueError and posts nothing.
C21_MoveNeedsExactlyOneOfVelocityDuration ==
  [][\A a \in MoveCalls :
       (/\ Plain(a.velocity) /\ Plain(a.duration)
        /\ a.units \in {"degrees", "radians", "position"}
        /\ InRange(a.pitch, a.roll, a.yaw, a.units)
        /\ Len(posted) < MaxPosts
        /\ move_call(a))
       => IF a.velocity.supplied # a.duration.supplied
          THEN /\ call'.outcome # "ValueError"
               /\ Len(posted') = Len(posted) + 1
               /\ posted'[Len(posted')].endpoint = "head"
          ELSE /\ call'.outcome = "ValueError"
               /\ posted' = posted]_vars

\* ------------------------------------------------- AssetMixin.save_audio

MaxBytes == 2

\* the alphabet of base64
B64Alphabet ==
  <<
    "A", "B", "C", "D", "E", "F", "G", "H", "I", "J", "K", "L", "M", "N", "O", "P",
    "Q", "R", "S", "T", "U", "V", "W", "X", "Y", "Z", "a", "b", "c", "d", "e", "f",
    "g", "h", "i", "j", "k", "l", "m", "n", "o", "p", "q", "r", "s", "t", "u", "v",
    "w", "x", "y", "z", "0", "1", "2", "3", "4", "5", "6", "7", "8", "9", "+", "/" >>

B64Char(k) == B64Alphabet[k + 1]

\* base64.b64encode(bytes).decode('ascii'): three bytes give four characters,
\* a last group of one or two bytes is padded with '='
RECURSIVE b64encode(_)
b64encode(bytes) ==
  IF Len(bytes) = 0 THEN ""
  ELSE IF Len(bytes) = 1
  THEN B64Char(bytes[1] \div 4) \o B64Char((bytes[1] % 4) * 16) \o "=="
  ELSE IF Len(bytes) = 2
  THEN B64Char(bytes[1] \div 4)
       \o B64Char((bytes[1] % 4) * 16 + bytes[2] \div 16)
       \o B64Char((bytes[2] % 16) * 4) \o "="
  ELSE B64Char(bytes[1] \div 4)
       \o B64Char((bytes[1] % 4) * 16 + bytes[2] \div 16)
       \o B64Char((bytes[2] % 16) * 4 + bytes[3] \div 64)
       \o B64Char(bytes[3] % 64)
       \o b64encode(SubSeq(bytes, 4, Len(bytes)))

\* the contents a file may have
FileBytes == UNION {[1..k -> {77, 255}] : k \in 0..MaxBytes}

\* the file arguments: None, the path of a file, a path that names no file,
\* a BytesIO object
FileArgs ==
  {[kind |-> "none", bytes |-> <<>>], [kind |-> "missing", bytes |-> <<>>]}
  \cup {[kind |-> k, bytes |-> b] : k \in {"path", "bytesio"}, b \in FileBytes}

\* the data arguments: None, the empty string, a base64 string
DataArgs == {None, Some(""), Some("QUJD")}

\* the record of a call of save_audio
AudioStart(file_name, data, file, immediately_apply) ==
  [NoCall EXCEPT !.op = "save_audio",
                 !.arg = <<file_name, data, file, immediately_apply>>]

\* AssetMixin.save_audio
save_audio(file_name, data, file, immediately_apply, overwrite_existing) ==
  LET op == AudioStart(file_name, data, file, immediately_apply) IN
  IF (~data.isNone /\ data.val # "") /\ file.kind # "none"
  THEN raises(op, "Exception")
  ELSE IF file.kind = "none"
  THEN \* open(None) raises TypeError, and None has no getvalue
       raises(op, "AttributeError")
  ELSE IF file.kind = "missing"
  THEN raises(op, "FileNotFoundError")
  ELSE \* open(path) gives the bytes; open(BytesIO) raises TypeError and
       \* getvalue() gives them
       wrapper_post(op, "audio",
         json_dumps(<< <<"FileName", Some(file_name)>>,
                       <<"Data", Some(b64encode(file.bytes))>>,
                       <<"ImmediatelyApply", Some(immediately_apply)>>,
                       <<"OverwriteExisting", Some(overwrite_existing)>> >>))

InitAudio == Init

NextAudio ==
  (\E data \in DataArgs, file \in FileArgs, immediately_apply \in BOOLEAN :
      save_audio("a.wav", data, file, immediately_apply, FALSE))
  /\ UNCHANGED <<streams, pose, pc>>

SpecAudio == InitAudio /\ [][NextAudio]_vars

\* C22: save_audio called with a base64 string as data and no file posts an
\* audio request whose Data field is that string; called with a file and no
\* data it posts the base64 encoding of the file's bytes; called with both
\* it raises and posts nothing.
C22_SaveAudioTakesDataOrFile ==
  [][\A data \in DataArgs, file \in FileArgs, immediately_apply \in BOOLEAN :
       (/\ Len(posted) < MaxPosts
        /\ file.kind # "missing"
        /\ save_audio("a.wav", data, file, immediately_apply, FALSE))
       => LET hasData == ~data.isNone /\ data.val # ""
              hasFile == file.kind # "none" IN
          /\ (hasData /\ hasFile) =>
               (call'.outcome = "Exception" /\ posted' = posted)
          /\ (hasData /\ ~hasFile) =>
               /\ Len(posted') = Len(posted) + 1
               /\ posted'[Len(posted')].params[4] = data.val
          /\ (~hasData /\ hasFile) =>
               /\ Len(posted') = Len(posted) + 1
               /\ posted'[Len(posted')].params[4] = b64encode(file.bytes)]_vars

\* C23: a subscribe() on a SUBSCRIBED stream whose connection is open, once
\* it has opened a connection, has attached the new connection to the stream;
\* the first connection is still open, nothing was sent on it, and no stream
\* of the registry holds it.
C23_ResubscribeLeaksFirstConnection ==
  [][\A n \in Registered :
       LET old == websockets[n].websocket IN
       (/\ State(n) = "SUBSCRIBED" /\ conns[old].status = "open"
        /\ CallOn(n) /\ call'.op = "subscribe" /\ call'.opens = 1)
       => /\ Len(conns') = Len(conns) + 1
          /\ websockets'[n].websocket = Len(conns')
          /\ websockets'[n].websocket # old
          /\ conns'[old].status = "open"
          /\ conns'[old].sent = conns[old].sent
          /\ \A m \in Registered : websockets'[m].websocket # old]_vars

\* C23 witness: a second subscribe() on a SUBSCRIBED stream has returned; the
\* stream holds the second connection and the first, which it opened, is open
C23_Witness ==
  /\ call.op = "subscribe" /\ call.pre = "SUBSCRIBED" /\ call.outcome = "ok"
  /\ Len(conns) = 2
  /\ websockets[call.stream].websocket = 2
  /\ conns[1].owner = call.stream /\ conns[1].status = "open" /\ conns[1].acked
  /\ conns[2].status = "open"

\* get_message() is suspended on an open connection with nothing pending
Starved ==
  /\ waiting \in Registered
  /\ websockets[waiting].websocket # 0
  /\ conns[websockets[waiting].websocket].status = "open"
  /\ conns[websockets[waiting].websocket].inbox = <<>>

\* C24: a get_message() on a stream whose connection is open with nothing
\* pending does not end: it stays suspended, neither returning nor failing,
\* for as long as the connection is open and the server has sent nothing,
\* and meanwhile the caller can make no other call; it ends only in a step
\* that finds an event pending or the connection not open.
C24_ReceiveHasNoTimeout ==
  /\ [](Starved =>
          /\ call.op = "receive" /\ call.outcome = "blocked"
          /\ ~ENABLED recv_wakes
          /\ \A n \in Registered :
               /\ ~ENABLED get_message(n)
               /\ ~ENABLED subscribe(n)
               /\ ~ENABLED unsubscribe(n))
  /\ [][/\ Starved => (call' = call /\ waiting' = waiting /\ ncalls' = ncalls)
        /\ \A n \in Registered :
             (/\ CallOn(n) /\ call'.op = "receive"
              /\ websockets[n].websocket # 0
              /\ conns[websockets[n].websocket].status = "open"
              /\ conns[websockets[n].websocket].inbox = <<>>)
             => (call'.outcome = "blocked" /\ waiting' = n)
        /\ (waiting # "" /\ waiting' = "")
             => \/ conns[websockets[waiting].websocket].inbox # <<>>
                \/ conns[websockets[waiting].websocket].status # "open"]_vars

\* C24 witness: a get_message() on a SUBSCRIBED stream is suspended on an
\* open connection on which the server has sent nothing
C24_Witness ==
  /\ Starved
  /\ call.op = "receive" /\ call.pre = "SUBSCRIBED" /\ call.outcome = "blocked"
  /\ conns[websockets[waiting].websocket].acked
  /\ conns[websockets[waiting].websocket].pushed = <<>>

\* a step of the caller on the stream registered under n: add_websocket, a
\* call of subscribe, get_message or unsubscribe, or the end of a suspended
\* get_message
OperationOn(n) ==
  /\ call'.stream = n
  /\ \/ ncalls' = ncalls + 1
     \/ waiting = n /\ waiting' = ""
     \/ call'.op = "add_websocket" /\ <<websockets, call>>' # <<websockets, call>>

\* C25: an operation on the stream under one name leaves the stream under
\* every other name as it was: its registry entry, its state, its connection
\* with what was sent and what is pending on it, and its history.
C25_NamedStreamsIndependent ==
  [][\A n \in Names, m \in Registered :
       (n # m /\ OperationOn(n))
       => /\ m \in DOMAIN websockets'
          /\ websockets'[m] = websockets[m]
          /\ State(m)' = State(m)
          /\ hist'[m] = hist[m]
          /\ websockets[m].websocket # 0 =>
               conns'[websockets[m].websocket] = conns[websockets[m].websocket]
          /\ call'.conn # 0 => call'.conn # websockets[m].websocket]_vars

\* C25 witness: the caller has unsubscribed one stream while another stream
\* of the registry is SUBSCRIBED on an open connection with an event pending
C25_Witness ==
  \E m \in Registered :
    /\ call.op = "unsubscribe" /\ call.outcome = "ok" /\ call.stream # m
    /\ call.stream \in Registered
    /\ State(m) = "SUBSCRIBED"
    /\ conns[websockets[m].websocket].status = "open"
    /\ conns[websockets[m].websocket].inbox # <<>>

\* a subscribe of the stream object now registered under n has opened a
\* connection
HasOpened(n) == \E c \in ConnIds : conns[c].owner = n

\* C30: the connection reference of a stream object is empty exactly while no
\* subscribe of that object has opened a connection; no call on the object
\* and no event of the server empties it again (only a new registration puts
\* a new object, with an empty reference, under the name); and a call that
\* ended with 'No active WebSocket subscription' was made on an object that
\* had opened no connection.
C30_ReferenceNeverReset ==
  /\ [](\A n \in Registered : websockets[n].websocket = 0 <=> ~HasOpened(n))
  /\ [](call.outcome = "NotSubscribed"
          => (call.pre = "UNSUBSCRIBED" /\ ~call.hadSub /\ ~HasOpened(call.stream)))
  /\ [][\A n \in Registered :
          (websockets[n].websocket # 0 /\
           ~(call'.op = "add_websocket" /\ call'.stream = n))
          => /\ n \in DOMAIN websockets'
             /\ websockets'[n].websocket # 0]_vars

\* after a successful unsubscribe closed the connection, the reference is
\* still set and the next call gets past the guard, to fail on the connection
C30_Witness ==
  /\ call.op \in {"unsubscribe", "receive"}
  /\ call.outcome = "TransportError"
  /\ call.pre = "CLOSED"
  /\ call.hadUnsub
  /\ websockets[call.stream].websocket # 0
  /\ conns[websockets[call.stream].websocket].status = "closed"

\* --------------------------------------------------- Robot.add_touch_sensor

MaxSensors == 2

\* the list `sensors` of add_touch_sensor
sensors == <<"Chin", "HeadLeft", "HeadRight", "HeadBack", "HeadFront", "Scruff">>

\* the sensor_position arguments: None, a string, or a list of strings
SensorNames == {"Chin", "Scruff", "Nose"}

SensorInputs ==
  {[kind |-> "none", str |-> "", list |-> <<>>]}
  \cup {[kind |-> "str", str |-> x, list |-> <<>>] : x \in SensorNames}
  \cup {[kind |-> "list", str |-> "", list |-> l] :
          l \in UNION {[1..k -> SensorNames] : k \in 0..MaxSensors}}

\* the loop over the entries of a list argument, from entry i on: it raises
\* ValueError itself for an entry that `sensors` does not hold, and
\* list.remove raises ValueError for an entry that was removed before
RECURSIVE ExcludeSensors(_, _, _)
ExcludeSensors(sensor_position, i, exclude_sensors) ==
  IF i > Len(sensor_position)
  THEN [raised |-> FALSE, exclude_sensors |-> exclude_sensors]
  ELSE IF ~InList(sensor_position[i], sensors)
  THEN [raised |-> TRUE, exclude_sensors |-> <<>>]
  ELSE IF ~InList(sensor_position[i], exclude_sensors)
  THEN [raised |-> TRUE, exclude_sensors |-> <<>>]
  ELSE ExcludeSensors(sensor_position, i + 1,
                      ListRemove(exclude_sensors, sensor_position[i]))

\* the conditions add_touch_sensor computes, or the ValueError
sensor_conditions(sensor_position) ==
  IF \/ sensor_position.kind = "none"
     \/ sensor_position.kind = "str" /\ sensor_position.str = ""
     \/ sensor_position.kind = "list" /\ sensor_position.list = <<>>
  THEN [raised |-> FALSE, conditions |-> None]
  ELSE IF sensor_position.kind = "str"
  THEN IF InList(sensor_position.str, sensors)
       THEN [raised |-> FALSE,
             conditions |-> Some(<< <<"sensorPosition", "==", sensor_position.str>> >>)]
       ELSE [raised |-> TRUE, conditions |-> None]
  ELSE LET r == ExcludeSensors(sensor_position.list, 1, sensors) IN
       IF r.raised THEN [raised |-> TRUE, conditions |-> None]
       ELSE [raised |-> FALSE,
             conditions |-> Some([i \in 1..Len(r.exclude_sensors) |->
                                    <<"sensorPosition", "!=", r.exclude_sensors[i]>>])]

\* add_touch_sensor as it would be if it registered the stream before it
\* looked at the positions
add_touch_sensor_registering_first(event_name, sensor_position) ==
  LET r == sensor_conditions(sensor_position) IN
  IF r.raised
  THEN /\ waiting = ""
       /\ websockets' = [n \in Registered \cup {event_name} |->
                           IF n = event_name
                           THEN NewStream("ws://ip/pubsub", "TouchSensor", event_name,
                                          250, None, None)
                           ELSE websockets[n]]
       /\ hist' = [n \in Registered \cup {event_name} |->
                     IF n = event_name
                     THEN [sub |-> FALSE, unsub |-> FALSE, given |-> None]
                     ELSE hist[n]]
       /\ call' = [NoCall EXCEPT
                     !.op = "add_touch_sensor", !.stream = event_name,
                     !.outcome = "ValueError",
                     !.arg = <<sensor_position.kind, sensor_position.str,
                               sensor_position.list>>]
       /\ UNCHANGED <<conns, ncalls, waiting>>
  ELSE add_websocket("TouchSensor", event_name, 250, None, r.conditions)

\* Robot.add_touch_sensor
add_touch_sensor(event_name, sensor_position) ==
  LET r == sensor_conditions(sensor_position) IN
  IF r.raised
  THEN /\ waiting = ""
       /\ call' = [NoCall EXCEPT
                     !.op = "add_touch_sensor", !.stream = event_name,
                     !.outcome = "ValueError",
                     !.arg = <<sensor_position.kind, sensor_position.str,
                               sensor_position.list>>]
       /\ UNCHANGED <<websockets, conns, ncalls, waiting, hist>>
  ELSE add_websocket("TouchSensor", event_name, 250, None, r.conditions)

\* the hazard_type arguments made of three of the names
FewHazardInputs ==
  {h \in HazardInputs :
     LET few == {"", "criticalInternalError", "driveStopped", "wheelSlip"} IN
     h.str \in few /\ \A i \in 1..Len(h.list) : h.list[i] \in few}

InitSensors == Init

NextSensors ==
  \/ (\E x \in SensorInputs : add_touch_sensor("touch", x)) /\ UNCHANGED rest
  \/ (\E h \in FewHazardInputs : add_hazard_notification("hazard", h)) /\ UNCHANGED rest

SpecSensors == InitSensors /\ [][NextSensors]_vars

\* a non-empty list of valid sensor positions
ValidSensorList(x) ==
  /\ x.kind = "list" /\ x.list # <<>>
  /\ \A i \in 1..Len(x.list) : InList(x.list[i], sensors)

\* C26: add_touch_sensor called with a non-empty list of valid positions, in
\* any order and with or without repeated entries, registers a TouchSensor
\* stream given the condition ('sensorPosition', '!=', s) for each of the six
\* sensors s that the list does not hold, in the order of the six; called
\* with one valid position as a string it gives the stream the one condition
\* ('sensorPosition', '==', position); called with no position, None.
C26_TouchSensorConditions ==
  [][\A x \in SensorInputs :
       ((ValidSensorList(x) \/ (x.kind = "str" /\ InList(x.str, sensors))
                            \/ x.kind = "none")
        /\ add_touch_sensor("touch", x))
       => /\ call'.outcome # "ValueError"
          /\ "touch" \in DOMAIN websockets'
          /\ websockets'["touch"].event_type = "TouchSensor"
          /\ hist'["touch"].given =
               IF x.kind = "none" THEN None
               ELSE IF x.kind = "str"
               THEN Some(<< <<"sensorPosition", "==", x.str>> >>)
               ELSE LET kept == SelectSeq(sensors,
                                  LAMBDA s : ~InList(s, x.list)) IN
                    Some([i \in 1..Len(kept) |->
                            <<"sensorPosition", "!=", kept[i]>>])]_vars

\* C27: a call of add_touch_sensor or add_hazard_notification that raises
\* ValueError leaves the registry as it was, with the entry under event_name
\* if there was one, and opens no connection.
C27_ValueErrorLeavesRegistry ==
  [][(/\ call'.op \in {"add_touch_sensor", "add_hazard_notification"}
      /\ call'.outcome = "ValueError")
     => /\ websockets' = websockets
        /\ hist' = hist
        /\ conns' = conns]_vars

\* C27 witness: add_touch_sensor has raised ValueError for an invalid
\* position that follows a valid one in the list, with a stream with
\* conditions registered under the event name
C27_Witness ==
  /\ call.op = "add_touch_sensor" /\ call.outcome = "ValueError"
  /\ call.arg[1] = "list" /\ Len(call.arg[3]) = 2
  /\ InList(call.arg[3][1], sensors) /\ ~InList(call.arg[3][2], sensors)
  /\ call.stream \in Registered
  /\ ~websockets[call.stream].conditions.isNone

\* ------------------------------- ActuatorMixin.position_getter and Head
\* position_getter and the Head properties run as a sequence of calls; pc
\* tells which call comes next.

\* the calls on a stream that one position_getter makes
GetterCalls == 3

Axes == {"pitch", "roll", "yaw"}

\* the sensor_name each Head property passes to position_getter
SensorOf(axis) ==
  IF axis = "pitch" THEN "Actuator_HeadPitch"
  ELSE IF axis = "roll" THEN "Actuator_HeadRoll"
  ELSE "Actuator_HeadYaw"

\* the axis an actuator reports
AxisOf(sensor_name) == CHOOSE axis \in Axes : SensorOf(axis) = sensor_name

\* the properties a setter reads for the arguments of move, in the order of
\* the arguments: pitch, roll, yaw, without the one assigned
SetterReads(axis) ==
  IF axis = "pitch" THEN <<"roll", "yaw">>
  ELSE IF axis = "roll" THEN <<"pitch", "yaw">>
  ELSE <<"pitch", "pitch">>

\* no position_getter and no setter is running
AtRest == pc.at \in {"idle", "returned", "raised", "moved"}

\* reading Head.pitch, Head.roll or Head.yaw
Head_get(axis) ==
  /\ AtRest
  /\ pc' = [Idle EXCEPT !.at = "add_websocket", !.event_name = axis,
                        !.sensor_name = SensorOf(axis)]
  /\ UNCHANGED <<streams, call, posted, pose>>

\* assigning Head.pitch, Head.roll or Head.yaw: the arguments of move are
\* evaluated first, each a read of a property
Head_set(axis, new_value) ==
  /\ AtRest
  /\ pc' = [Idle EXCEPT !.at = "add_websocket", !.setter = axis, !.new = new_value,
                        !.event_name = SetterReads(axis)[1],
                        !.sensor_name = SensorOf(SetterReads(axis)[1]),
                        !.reads = Tail(SetterReads(axis))]
  /\ UNCHANGED <<streams, call, posted, pose>>

\* position_getter: self.add_websocket('ActuatorPosition', event_name, ...)
position_getter_add_websocket ==
  /\ pc.at = "add_websocket"
  /\ add_websocket("ActuatorPosition", pc.event_name, 250, None,
                   Some(<< <<"sensorName", "==", pc.sensor_name>> >>))
  /\ pc' = [pc EXCEPT !.at = "subscribe"]
  /\ UNCHANGED <<posted, pose>>

\* position_getter: self.websockets[event_name].subscribe()
position_getter_subscribe ==
  /\ pc.at = "subscribe"
  /\ subscribe(pc.event_name)
  /\ pc' = [pc EXCEPT !.at = IF call'.outcome = "ok" THEN "get_message" ELSE "raised"]
  /\ UNCHANGED <<posted, pose>>

\* where position_getter stands after its get_message has ended or paused
AfterReceive(c) ==
  IF c.outcome = "ok" THEN [pc EXCEPT !.at = "unsubscribe", !.msg = c.value]
  ELSE IF c.outcome = "blocked" THEN [pc EXCEPT !.at = "waiting"]
  ELSE [pc EXCEPT !.at = "raised"]

\* position_getter: msg = self.websockets[event_name].get_message()
position_getter_get_message ==
  /\ pc.at = "get_message"
  /\ get_message(pc.event_name)
  /\ pc' = AfterReceive(call')
  /\ UNCHANGED <<posted, pose>>

\* position_getter: the suspended get_message ends
position_getter_recv_wakes ==
  /\ pc.at = "waiting"
  /\ recv_wakes
  /\ pc' = AfterReceive(call')
  /\ UNCHANGED <<posted, pose>>

\* where position_getter, and the setter that called it, stand after
\* `return msg['message']['value']`
AfterReturn ==
  IF "message" \notin DOMAIN pc.msg
  THEN [pc EXCEPT !.at = "raised"]
  ELSE IF pc.setter = ""
  THEN [pc EXCEPT !.at = "returned", !.result = Some(pc.msg["message"])]
  ELSE IF pc.reads = <<>>
  THEN [pc EXCEPT !.at = "move", !.got = Append(@, pc.msg["message"])]
  ELSE [pc EXCEPT !.at = "add_websocket", !.got = Append(@, pc.msg["message"]),
                  !.event_name = Head(pc.reads),
                  !.sensor_name = SensorOf(Head(pc.reads)),
                  !.reads = Tail(pc.reads), !.msg = <<>>]

\* position_getter: self.websockets[event_name].unsubscribe(), and the return
position_getter_unsubscribe ==
  /\ pc.at = "unsubscribe"
  /\ unsubscribe(pc.event_name)
  /\ pc' = IF call'.outcome = "ok" THEN AfterReturn ELSE [pc EXCEPT !.at = "raised"]
  /\ UNCHANGED <<posted, pose>>

\* the setters: self.move(...) with the values read, in degrees, with the
\* defaults of velocity and duration
Head_set_move ==
  /\ pc.at = "move"
  /\ IF pc.setter = "pitch"
     THEN move(pc.new, pc.got[1], pc.got[2], velocity_default, duration_default, "degrees")
     ELSE IF pc.setter = "roll"
     THEN move(pc.got[1], pc.new, pc.got[2], velocity_default, duration_default, "degrees")
     ELSE move(pc.got[1], pc.got[2], pc.new, velocity_default, duration_default, "degrees")
  /\ pc' = [pc EXCEPT !.at = IF call'.outcome = "ok" THEN "moved" ELSE "raised"]
  /\ UNCHANGED <<streams, pose>>

\* the sensor a subscribe request asks for
SensorAsked(c) == conns[c].sent[1][12][1].Value

\* the robot reports the position of the actuator a connection asked for
\* (wellFormed), or sends an event without the 'message' field
robot_reports(c, wellFormed) ==
  /\ conns[c].sent # <<>>
  /\ server_pushes(c,
       IF wellFormed
       THEN <<"eventName", conns[c].sent[1][8], "message", pose[AxisOf(SensorAsked(c))]>>
       ELSE <<"eventName", conns[c].sent[1][8], "error", 0>>,
       MaxInbox)
  /\ UNCHANGED rest

\* the positions the head may be in, in thousandths of a degree
Poses == [pitch : {5000, 26000}, roll : {-10000}, yaw : {20000}]

\* the values assigned to a property, in thousandths of a degree
NewValues == {0, 90000}

\* ncalls leaves room for the calls of the two position_getter runs of a setter
InitHead ==
  /\ websockets = [n \in {} |-> 0]
  /\ conns = <<>>
  /\ call = NoCall
  /\ ncalls = MaxCalls - 2 * GetterCalls
  /\ waiting = ""
  /\ hist = [n \in {} |-> 0]
  /\ posted = <<>>
  /\ pose \in Poses
  /\ pc = Idle

NextHead ==
  \/ \E axis \in Axes : Head_get(axis)
  \/ \E axis \in Axes, new_value \in NewValues : Head_set(axis, new_value)
  \/ position_getter_add_websocket
  \/ position_getter_subscribe
  \/ position_getter_get_message
  \/ position_getter_recv_wakes
  \/ position_getter_unsubscribe
  \/ Head_set_move
  \/ \E c \in ConnIds, wellFormed \in BOOLEAN : robot_reports(c, wellFormed)
  \/ (\E c \in ConnIds : server_drops(c)) /\ UNCHANGED rest

SpecHead == InitHead /\ [][NextHead]_vars

\* C28: when a position_getter has finished, by returning or by raising, no
\* connection is open: neither the one of the stream it registered nor one
\* left by an earlier run; when it has returned, it has registered the
\* stream, subscribed it, received one event, whose value it returns, and
\* unsubscribed, in that order.
C28_PositionGetterLeavesNoOpenConnection ==
  /\ (pc.at \in {"returned", "raised", "moved", "move"} \/
      (pc.at = "add_websocket" /\ pc.got # <<>>))
     => \A c \in ConnIds : conns[c].status # "open"
  /\ pc.at = "returned"
     => LET c == websockets[pc.event_name].websocket IN
        /\ call.op = "unsubscribe" /\ call.steps = <<"send", "close">>
        /\ conns[c].owner = pc.event_name
        /\ Len(conns[c].sent) = 2
        /\ conns[c].nrecv = 1
        /\ pc.result = Some(conns[c].pushed[1][4])

\* C29: the head command a setter posts carries the assigned value for its
\* own axis and, for each of the other two axes, the position the robot
\* reports for that axis.
C29_SetterChangesOnlyItsAxis ==
  (/\ pc.at \in {"moved", "raised"} /\ pc.setter # ""
   /\ call.op = "move" /\ call.outcome \in {"ok", "Exception"})
  => LET sent == posted[Len(posted)].params IN
     /\ sent.Pitch = IF pc.setter = "pitch" THEN pc.new ELSE pose.pitch
     /\ sent.Roll  = IF pc.setter = "roll"  THEN pc.new ELSE pose.roll
     /\ sent.Yaw   = IF pc.setter = "yaw"   THEN pc.new ELSE pose.yaw

====
